---- MODULE Spec2Model ----
(***************************************************************************)
(* Model of logical_calculi_tensors.ipynb: truth values, connective        *)
(* tensors, the connective lambdas n, a, o, c, c2, xor, the quantifiers    *)
(* forall and exists, and truth_table.                                     *)
(*                                                                         *)
(* A numpy array is a record [shape, data]: its shape and its row-major    *)
(* buffer.  A 0-d result (a numpy scalar) has shape <<>> and one element.  *)
(* Expressions are evaluated on an operand stack, as the interpreter does: *)
(* constants are pushed, a call pops its arguments and pushes its result.  *)
(*                                                                         *)
(* Spec            the connective and quantifier cells on t, f and 0/1     *)
(*                 predicates                                              *)
(* SpecPredicates  np.matmul of predicates with entities and extensions    *)
(* SpecTable       truth_table, one pass of its loop at a time             *)
(* SpecShapes      forall on arguments of differing shapes                 *)
(* SpecTwoVectors  n, a, o, c on 2-vectors other than t and f              *)
(* SpecReturned    the arrays forall and exists return, modified in place  *)
(***************************************************************************)
EXTENDS Integers, Sequences, FiniteSets, TLC

\* ---------------------------------------------------------------- bounds
\* largest domain size N for which predicate operands are enumerated
MaxN == 3
\* largest entry of a 2-vector passed to a connective as a truth value
MaxEntry == 2
\* deepest operand stack (nesting of pending call arguments)
MaxDepth == 2

\* ---------------------------------------------------------------- arrays
Arr(shape, data) == [shape |-> shape, data |-> data]

\* what a raising numpy call leaves instead of a value
ValueError == Arr(<<-1>>, <<>>)

RECURSIVE sum(_)
sum(s) == IF s = <<>> THEN 0 ELSE Head(s) + sum(Tail(s))

ndim(A) == Len(A.shape)

\* np.ones(k, dtype=int)
ones(k) == Arr(<<k>>, [i \in 1..k |-> 1])

\* the contraction summing each row of A without multiplying by B
matmul_vec_row_sums(A, B) ==
  LET m == A.shape[ndim(A)]
      cnt == IF m = 0 THEN 0 ELSE Len(A.data) \div m
  IN IF m # B.shape[1] THEN ValueError
     ELSE Arr(SubSeq(A.shape, 1, ndim(A) - 1),
              [r \in 1..cnt |-> sum([k \in 1..m |-> A.data[(r - 1) * m + k]])])

\* the contraction reading the first row of A for every output entry
matmul_vec_first_row(A, B) ==
  LET m == A.shape[ndim(A)]
      cnt == IF m = 0 THEN 0 ELSE Len(A.data) \div m
  IN IF m # B.shape[1] THEN ValueError
     ELSE Arr(SubSeq(A.shape, 1, ndim(A) - 1),
              [r \in 1..cnt |-> sum([k \in 1..m |-> A.data[k] * B.data[k]])])

\* the contraction with an accumulator that is not reset between rows
matmul_vec_running_sum(A, B) ==
  LET m == A.shape[ndim(A)]
      cnt == IF m = 0 THEN 0 ELSE Len(A.data) \div m
  IN IF m # B.shape[1] THEN ValueError
     ELSE Arr(SubSeq(A.shape, 1, ndim(A) - 1),
              [r \in 1..cnt |->
                 sum([k \in 1..(r * m) |->
                        A.data[k] * B.data[((k - 1) % m) + 1]])])

\* A (rank >= 1) times a 1-d B: the last axis of A is contracted with B
matmul_vec(A, B) ==
  LET m == A.shape[ndim(A)]
      cnt == IF m = 0 THEN 0 ELSE Len(A.data) \div m
  IN IF m # B.shape[1] THEN ValueError
     ELSE Arr(SubSeq(A.shape, 1, ndim(A) - 1),
              [r \in 1..cnt |->
                 sum([k \in 1..m |-> A.data[(r - 1) * m + k] * B.data[k]])])

\* the matrix product as a product of sums instead of a sum of products
matmul_mat_product_of_sums(A, B) ==
  LET p == A.shape[1]
      m == A.shape[2]
      q == B.shape[2]
  IN IF m # B.shape[1] THEN ValueError
     ELSE Arr(<<p, q>>,
              [r \in 1..(p * q) |->
                 LET i == ((r - 1) \div q) + 1
                     j == ((r - 1) % q) + 1
                 IN sum([k \in 1..m |-> A.data[(i - 1) * m + k]])
                      * sum([k \in 1..m |-> B.data[(k - 1) * q + j]])])

\* 2-d A times 2-d B
matmul_mat(A, B) ==
  LET p == A.shape[1]
      m == A.shape[2]
      q == B.shape[2]
  IN IF m # B.shape[1] THEN ValueError
     ELSE Arr(<<p, q>>,
              [r \in 1..(p * q) |->
                 LET i == ((r - 1) \div q) + 1
                     j == ((r - 1) % q) + 1
                 IN sum([k \in 1..m |->
                           A.data[(i - 1) * m + k] * B.data[(k - 1) * q + j]])])

\* np.matmul
matmul(A, B) ==
  IF A = ValueError \/ B = ValueError THEN ValueError
  ELSE IF ndim(A) = 0 \/ ndim(B) = 0 THEN ValueError
  ELSE IF ndim(B) = 1 THEN matmul_vec(A, B)
  ELSE IF ndim(A) = 2 /\ ndim(B) = 2 THEN matmul_mat(A, B)
  ELSE ValueError

\* numpy broadcasting of two shapes of rank <= 1
broadcast(sa, sb) ==
  IF sa = <<>> THEN sb
  ELSE IF sb = <<>> THEN sa
  ELSE IF sa[1] = sb[1] THEN sa
  ELSE IF sa[1] = 1 THEN sb
  ELSE IF sb[1] = 1 THEN sa
  ELSE <<-1>>

\* element i of A seen through the broadcast
bget(A, i) == IF Len(A.data) = 1 THEN A.data[1] ELSE A.data[i]

size(shape) == IF shape = <<>> THEN 1 ELSE shape[1]

\* x * y, elementwise
mul(A, B) ==
  IF A = ValueError \/ B = ValueError THEN ValueError
  ELSE LET s == broadcast(A.shape, B.shape)
       IN IF s = <<-1>> THEN ValueError
          ELSE Arr(s, [i \in 1..size(s) |-> bget(A, i) * bget(B, i)])

\* x == y, elementwise (1 for True, 0 for False)
eq(A, B) ==
  IF A = ValueError \/ B = ValueError THEN ValueError
  ELSE LET s == broadcast(A.shape, B.shape)
       IN IF s = <<-1>> THEN ValueError
          ELSE Arr(s, [i \in 1..size(s) |->
                         IF bget(A, i) = bget(B, i) THEN 1 ELSE 0])

\* ndarray.all()
all(A) == \A i \in 1..Len(A.data) : A.data[i] # 0

\* np.any(X != 0)
any_nonzero(A) == \E i \in 1..Len(A.data) : A.data[i] # 0

\* ---------------------------------------------------------------- constants
t == Arr(<<2>>, <<1, 0>>)
f == Arr(<<2>>, <<0, 1>>)

\* neg without the row swap of its second statement
neg_unswapped == Arr(<<2, 2>>, <<1, 0,
                                 0, 1>>)

neg == Arr(<<2, 2>>, <<0, 1,
                       1, 0>>)

lor == Arr(<<2, 2, 2>>, <<1, 1,
                          1, 0,

                          0, 0,
                          0, 1>>)

\* land with the (T,T) column set in both output rows
land_overlap == Arr(<<2, 2, 2>>, <<1, 0,
                                   0, 0,

                                   1, 1,
                                   1, 1>>)

land == Arr(<<2, 2, 2>>, <<1, 0,
                           0, 0,

                           0, 1,
                           1, 1>>)

cond == Arr(<<2, 2, 2>>, <<1, 0,
                           1, 1,

                           0, 1,
                           0, 0>>)

\* ---------------------------------------------------------------- connectives
\* a contracted with the tensor of another connective
a_with_cond(x, y) == matmul(matmul(cond, y), x)
\* o contracted with the tensor of another connective
o_with_land(x, y) == matmul(matmul(land, y), x)
\* c contracted with the first argument first
c_x_first(x, y) == matmul(matmul(cond, x), y)
\* c2 negating the consequent instead of the antecedent
c2_neg_second(x, y) == matmul(matmul(lor, matmul(neg, y)), x)
\* xor without the negation of its second argument
xor_one_neg(x, y) ==
  matmul(matmul(land, matmul(matmul(lor, y), matmul(neg, x))),
         matmul(matmul(lor, y), x))

n(x) == matmul(neg, x)
a(x, y) == matmul(matmul(land, y), x)
o(x, y) == matmul(matmul(lor, y), x)
c(x, y) == matmul(matmul(cond, y), x)
c2(x, y) == o(n(x), y)
xor(x, y) == a(o(x, y), o(n(x), n(y)))

\* ---------------------------------------------------------------- quantifiers
\* forall testing y against the product: "all Y are X"
forall_reversed(X, Y) ==
  IF X = ValueError \/ Y = ValueError \/ ndim(X) = 0 THEN ValueError
  ELSE LET ones_ == ones(X.shape[1])
           x == matmul(X, ones_)
           y == matmul(Y, ones_)
           test == eq(y, mul(x, y))
       IN IF test = ValueError THEN ValueError
          ELSE IF all(test) THEN t ELSE f

\* forall taking a 1-d argument as the extension itself, uncontracted
forall_elementwise(X, Y) ==
  IF X = ValueError \/ Y = ValueError \/ ndim(X) = 0 THEN ValueError
  ELSE LET ones_ == ones(X.shape[1])
           x == IF ndim(X) = 1 THEN X ELSE matmul(X, ones_)
           y == IF ndim(Y) = 1 THEN Y ELSE matmul(Y, ones_)
           test == eq(x, mul(x, y))
       IN IF test = ValueError THEN ValueError
          ELSE IF all(test) THEN t ELSE f

\* forall with existential import: an empty X makes it FALSE
forall_nonempty(X, Y) ==
  IF X = ValueError \/ Y = ValueError \/ ndim(X) = 0 THEN ValueError
  ELSE LET ones_ == ones(X.shape[1])
           x == matmul(X, ones_)
           y == matmul(Y, ones_)
           test == eq(x, mul(x, y))
       IN IF test = ValueError THEN ValueError
          ELSE IF all(test) /\ any_nonzero(x) THEN t ELSE f

forall(X, Y) ==
  IF X = ValueError \/ Y = ValueError \/ ndim(X) = 0 THEN ValueError
  ELSE LET ones_ == ones(X.shape[1])
           x == matmul(X, ones_)
           y == matmul(Y, ones_)
           test == eq(x, mul(x, y))
       IN IF test = ValueError THEN ValueError
          ELSE IF all(test) THEN t ELSE f

\* exists looking at the first entry only
exists_first_entry(X) == IF X.data[1] # 0 THEN t ELSE f

exists(X) == IF any_nonzero(X) THEN t ELSE f

\* ---------------------------------------------------------------- truth_table
\* the product with the first sequence varying fastest
product_first_fastest(A, B) ==
  [i \in 1..(Len(A) * Len(B)) |->
     <<A[((i - 1) % Len(A)) + 1], B[((i - 1) \div Len(A)) + 1]>>]

\* itertools.product(A, B) of two sequences, in its iteration order
product(A, B) ==
  [i \in 1..(Len(A) * Len(B)) |->
     <<A[((i - 1) \div Len(B)) + 1], B[((i - 1) % Len(B)) + 1]>>]

\* the function object passed as func, called on (x, y)
call(func, x, y) ==
  CASE func = "a" -> a(x, y)
    [] func = "o" -> o(x, y)
    [] func = "c" -> c(x, y)
    [] func = "c2" -> c2(x, y)
    [] func = "xor" -> xor(x, y)

truth_table(func) ==
  LET all_input_pairs == product(<<t, f>>, <<t, f>>)
  IN [i \in 1..Len(all_input_pairs) |->
        [first |-> all_input_pairs[i][1],
         second |-> all_input_pairs[i][2],
         result |-> call(func, all_input_pairs[i][1], all_input_pairs[i][2])]]

\* ---------------------------------------------------------------- operands
dogs == Arr(<<3>>, <<1, 1, 0>>)
cats == Arr(<<3>>, <<0, 0, 1>>)
entities == ones(3)

isdog == Arr(<<3, 3>>, <<1, 0, 0,
                         0, 1, 0,
                         0, 0, 0>>)
brown == Arr(<<3, 3>>, <<0, 0, 0,
                         0, 1, 0,
                         0, 0, 1>>)
black == Arr(<<3, 3>>, <<1, 0, 0,
                         0, 0, 0,
                         0, 0, 0>>)
iscat == Arr(<<3, 3>>, <<0, 0, 0,
                         0, 0, 0,
                         0, 0, 1>>)

\* the 0/1 extension vectors of length k
ExtensionVectors(k) == {Arr(<<k>>, d) : d \in [1..k -> {0, 1}]}

\* the k x k diagonal matrix with diagonal v.data
diag(v) ==
  LET k == v.shape[1]
  IN Arr(<<k, k>>, [r \in 1..(k * k) |->
                      IF (r - 1) \div k = (r - 1) % k
                      THEN v.data[((r - 1) \div k) + 1] ELSE 0])

\* the k x k diagonal 0/1 predicate matrices
PredicateMatrices(k) == {diag(v) : v \in ExtensionVectors(k)}

Sizes == 1..MaxN

\* ---------------------------------------------------------------- state
\* stack: the operands of the expression being evaluated
\* last:  the latest call, its arguments and the value it returned
\* table: the latest list returned by truth_table
\* frame: the activation of truth_table while its loop runs
\* mem:   the contents of the arrays bound to the module-level names t and f
\* ref:   the array object last.result is: "t", "f", or "new" for a freshly
\*        allocated array
VARIABLES stack, last, table, frame, mem, ref

vars == <<stack, last, table, frame, mem, ref>>

NoCall == [fn |-> "none", args |-> <<>>, result |-> t]
NoTable == [fn |-> "none", rows |-> <<>>]
NoFrame == [pc |-> "idle", func |-> "none", i |-> 0, table |-> <<>>,
            calls |-> <<>>]

Init ==
  /\ stack = <<>>
  /\ last = NoCall
  /\ table = NoTable
  /\ frame = NoFrame
  /\ mem = [t |-> t, f |-> f]
  /\ ref = "t"

\* a name evaluates to the module-level constant t or f
Load(v) ==
  /\ Len(stack) < MaxDepth
  /\ stack' = Append(stack, v)
  /\ UNCHANGED <<last, table, frame, mem, ref>>

\* the value of a finished expression is dropped
Pop ==
  /\ Len(stack) > 0
  /\ stack' = SubSeq(stack, 1, Len(stack) - 1)
  /\ UNCHANGED <<last, table, frame, mem, ref>>

Unary(name, r) ==
  /\ stack' = [stack EXCEPT ![Len(stack)] = r]
  /\ last' = [fn |-> name, args |-> <<stack[Len(stack)]>>, result |-> r]
  /\ table' = NoTable
  /\ ref' = "new"
  /\ UNCHANGED <<frame, mem>>

Binary(name, r) ==
  /\ stack' = Append(SubSeq(stack, 1, Len(stack) - 2), r)
  /\ last' = [fn |-> name,
              args |-> <<stack[Len(stack) - 1], stack[Len(stack)]>>,
              result |-> r]
  /\ table' = NoTable
  /\ ref' = "new"
  /\ UNCHANGED <<frame, mem>>

Call_n == Len(stack) >= 1 /\ Unary("n", n(stack[Len(stack)]))

Call_a ==
  Len(stack) >= 2 /\ Binary("a", a(stack[Len(stack) - 1], stack[Len(stack)]))

Call_o ==
  Len(stack) >= 2 /\ Binary("o", o(stack[Len(stack) - 1], stack[Len(stack)]))

Call_c ==
  Len(stack) >= 2 /\ Binary("c", c(stack[Len(stack) - 1], stack[Len(stack)]))

Call_c2 ==
  Len(stack) >= 2 /\ Binary("c2", c2(stack[Len(stack) - 1], stack[Len(stack)]))

Call_xor ==
  Len(stack) >= 2 /\ Binary("xor", xor(stack[Len(stack) - 1], stack[Len(stack)]))

\* the operand pairs forall is called on: two predicate matrices, or two
\* extension vectors, of one domain size
ForallOperands ==
  UNION {(PredicateMatrices(k) \X PredicateMatrices(k))
           \cup (ExtensionVectors(k) \X ExtensionVectors(k)) : k \in Sizes}

\* the operands exists is called on: a predicate matrix or an extension vector
ExistsOperands ==
  UNION {PredicateMatrices(k) \cup ExtensionVectors(k) : k \in Sizes}

\* every forall(X, Y) call on those operands, with the value it returns
ForallCalls ==
  {[fn |-> "forall", args |-> XY, result |-> forall(XY[1], XY[2])] :
     XY \in ForallOperands}

\* every exists(X) call on those operands, with the value it returns
ExistsCalls ==
  {[fn |-> "exists", args |-> <<X>>, result |-> exists(X)] :
     X \in ExistsOperands}

\* "return t" / "return f": the call returns the array object bound to the
\* module-level name, not a copy of it
ReturnNamed(call_) ==
  LET obj == IF call_.result = t THEN "t" ELSE "f"
  IN /\ stack' = Append(stack, mem[obj])
     /\ last' = [call_ EXCEPT !.result = mem[obj]]
     /\ ref' = obj

Call_forall ==
  /\ Len(stack) < MaxDepth
  /\ \E call_ \in ForallCalls : ReturnNamed(call_)
  /\ table' = NoTable
  /\ UNCHANGED <<frame, mem>>

Call_exists ==
  /\ Len(stack) < MaxDepth
  /\ \E call_ \in ExistsCalls : ReturnNamed(call_)
  /\ table' = NoTable
  /\ UNCHANGED <<frame, mem>>

\* truth_table(func) for one of the binary connectives of the notebook
Call_truth_table ==
  /\ \E func \in {"o", "a", "c", "c2", "xor"} :
       table' = [fn |-> func, rows |-> truth_table(func)]
  /\ last' = NoCall
  /\ ref' = "t"
  /\ UNCHANGED <<stack, frame, mem>>

Next ==
  \/ Load(t)
  \/ Load(f)
  \/ Pop
  \/ Call_n
  \/ Call_a
  \/ Call_o
  \/ Call_c
  \/ Call_c2
  \/ Call_xor
  \/ Call_forall
  \/ Call_exists
  \/ Call_truth_table

Spec == Init /\ [][Next]_vars

\* ---------------------------------------------------------------- predicates
\* np.eye(N=1, M=k, k=i, dtype=int).squeeze(): the one-hot vector of entity i
\* (i counted from 0)
eye_squeeze(k, i) == Arr(<<k>>, [j \in 1..k |-> IF j = i + 1 THEN 1 ELSE 0])

john == eye_squeeze(3, 0)
chris == eye_squeeze(3, 1)
tom == eye_squeeze(3, 2)

mp == Arr(<<2, 3>>, <<1, 1, 0,
                      0, 0, 1>>)

\* the one-hot entity vectors of a domain of size k
EntityVectors(k) == {eye_squeeze(k, i) : i \in 0..(k - 1)}

\* the 2 x k predicate matrix whose column i is (1,0) where v holds, else (0,1)
propositional(v) ==
  LET k == v.shape[1]
  IN Arr(<<2, k>>, [r \in 1..(2 * k) |->
                      IF r <= k THEN v.data[r] ELSE 1 - v.data[r - k]])

\* the 2 x k predicate matrices whose columns are basis truth vectors
PropositionalPredicates(k) == {propositional(v) : v \in ExtensionVectors(k)}

\* every np.matmul(P, e) of a 2 x k predicate and an entity, with its value
EntityCalls ==
  UNION {{[fn |-> "matmul", args |-> <<P, e>>, result |-> matmul(P, e)] :
            P \in PropositionalPredicates(k), e \in EntityVectors(k)} :
         k \in Sizes}

\* every np.matmul(P, v) of a k x k predicate and an extension, with its value
ExtensionCalls ==
  UNION {{[fn |-> "matmul", args |-> <<P, v>>, result |-> matmul(P, v)] :
            P \in PredicateMatrices(k), v \in ExtensionVectors(k)} :
         k \in Sizes}

\* every exists(np.matmul(P, Q)) of two k x k predicates, with its value
ExistsMatmulCalls ==
  UNION {{[fn |-> "exists_matmul", args |-> <<P, Q>>,
           result |-> exists(matmul(P, Q))] :
            P \in PredicateMatrices(k), Q \in PredicateMatrices(k)} :
         k \in Sizes}

\* value = np.matmul(mp, john): a predicate applied to an entity
Call_matmul_entity ==
  /\ Len(stack) < MaxDepth
  /\ \E call_ \in EntityCalls :
       /\ stack' = Append(stack, call_.result)
       /\ last' = call_
  /\ table' = NoTable
  /\ ref' = "new"
  /\ UNCHANGED <<frame, mem>>

\* np.matmul(brown, dogs): a predicate applied to an extension
Call_matmul_extension ==
  /\ \E call_ \in ExtensionCalls : last' = call_
  /\ table' = NoTable
  /\ ref' = "new"
  /\ UNCHANGED <<stack, frame, mem>>

\* exists(np.matmul(iscat, brown)): is any entity in both extensions
Call_exists_matmul ==
  /\ Len(stack) < MaxDepth
  /\ \E call_ \in ExistsMatmulCalls : ReturnNamed(call_)
  /\ table' = NoTable
  /\ UNCHANGED <<frame, mem>>

NextPredicates ==
  \/ Call_matmul_entity
  \/ Call_matmul_extension
  \/ Call_exists_matmul
  \/ Pop

SpecPredicates == Init /\ [][NextPredicates]_vars

\* ---------------------------------------------------------------- shapes
\* the 1 x k matrix with the single row v.data
row_matrix(v) == Arr(<<1, v.shape[1]>>, v.data)

\* the all-zero vector of length k
zeros(k) == Arr(<<k>>, [i \in 1..k |-> 0])

\* arguments of differing shapes: for each domain size the all-zero and
\* all-one extension vectors, their k x k diagonal matrices and their 1 x k
\* matrices, and the predicates and extensions the notebook names
ShapeOperands ==
  UNION {{zeros(k), ones(k), diag(zeros(k)), diag(ones(k)),
          row_matrix(zeros(k)), row_matrix(ones(k))} : k \in Sizes}
    \cup {dogs, cats, isdog, brown, black, iscat}

\* every forall(X, Y) call on those arguments, with the value it returns or
\* ValueError when np.matmul raises
ShapeCalls ==
  {[fn |-> "forall", args |-> XY, result |-> forall(XY[1], XY[2])] :
     XY \in ShapeOperands \X ShapeOperands}

\* forall(X, Y) on two arguments of any of those shapes; a raised error
\* leaves no value behind
Call_forall_shapes ==
  /\ Len(stack) < MaxDepth
  /\ \E call_ \in ShapeCalls :
       IF call_.result = ValueError
       THEN last' = call_ /\ ref' = "new" /\ UNCHANGED stack
       ELSE ReturnNamed(call_)
  /\ table' = NoTable
  /\ UNCHANGED <<frame, mem>>

NextShapes ==
  \/ Call_forall_shapes
  \/ Pop

SpecShapes == Init /\ [][NextShapes]_vars

\* ---------------------------------------------------------------- any 2-vector
\* the 2-vectors a caller can pass where a truth vector is expected
TwoVectors == {Arr(<<2>>, d) : d \in [1..2 -> 0..MaxEntry]}

\* the connectives called on any such 2-vectors: the lambdas n, a, o, c are
\* the same, only the arguments on the operand stack are not restricted to
\* t and f
OnTwoVectors == \A i \in 1..Len(stack) : stack[i] \in TwoVectors

\* the arguments of one expression are pushed before its first call
Load_any == last = NoCall /\ \E v \in TwoVectors : Load(v)
Call_n_any == OnTwoVectors /\ Call_n
Call_a_any == OnTwoVectors /\ Call_a
Call_o_any == OnTwoVectors /\ Call_o
Call_c_any == OnTwoVectors /\ Call_c

NextTwoVectors ==
  \/ Load_any
  \/ Pop
  \/ Call_n_any
  \/ Call_a_any
  \/ Call_o_any
  \/ Call_c_any

SpecTwoVectors == Init /\ [][NextTwoVectors]_vars

\* ---------------------------------------------------------------- truth_table, step by step
\* truth_table(func) is entered: the iterator over the input pairs and the
\* empty list are created
Enter_truth_table ==
  /\ frame.pc # "loop"
  /\ \E func \in {"o", "a", "c", "c2", "xor"} :
       frame' = [pc |-> "loop", func |-> func, i |-> 0, table |-> <<>>,
                 calls |-> <<>>]
  /\ UNCHANGED <<stack, last, table, mem, ref>>

\* one pass of the for loop: the next input_pair is taken, func is called on
\* it and the row is appended
Iterate ==
  /\ frame.pc = "loop"
  /\ frame.i < Len(product(<<t, f>>, <<t, f>>))
  /\ LET input_pair == product(<<t, f>>, <<t, f>>)[frame.i + 1]
         result == call(frame.func, input_pair[1], input_pair[2])
     IN /\ frame' = [frame EXCEPT
                       !.i = @ + 1,
                       !.calls = Append(@, <<frame.func, input_pair[1],
                                             input_pair[2]>>),
                       !.table = Append(@, [first |-> input_pair[1],
                                            second |-> input_pair[2],
                                            result |-> result])]
        /\ last' = [fn |-> frame.func,
                    args |-> <<input_pair[1], input_pair[2]>>,
                    result |-> result]
  /\ ref' = "new"
  /\ UNCHANGED <<stack, table, mem>>

\* the iterator is exhausted: return table
Return_table ==
  /\ frame.pc = "loop"
  /\ frame.i = Len(product(<<t, f>>, <<t, f>>))
  /\ frame' = [frame EXCEPT !.pc = "done"]
  /\ table' = [fn |-> frame.func, rows |-> frame.table]
  /\ last' = NoCall
  /\ ref' = "t"
  /\ UNCHANGED <<stack, mem>>

\* between two truth tables other cells use t and f
Load_between == frame.pc # "loop" /\ (Load(t) \/ Load(f))
Pop_between == frame.pc # "loop" /\ Pop

NextTable ==
  \/ Enter_truth_table
  \/ Iterate
  \/ Return_table
  \/ Load_between
  \/ Pop_between

SpecTable == Init /\ [][NextTable]_vars

\* ---------------------------------------------------------------- returned arrays
\* the forall(X, Y) calls of the notebook's predicates, with their value
NamedForallCalls ==
  {[fn |-> "forall", args |-> <<X, Y>>, result |-> forall(X, Y)] :
     X \in {isdog, brown, black, iscat}, Y \in {isdog, brown, black, iscat}}

\* the exists(X) calls of the notebook's extensions, predicates and products,
\* with their value
NamedExistsCalls ==
  {[fn |-> "exists", args |-> <<X>>, result |-> exists(X)] :
     X \in {dogs, cats, isdog, brown, black, iscat,
            matmul(iscat, brown), matmul(iscat, black), matmul(isdog, black)}}

\* r = forall(X, Y) as a whole expression
Call_forall_named ==
  /\ stack = <<>>
  /\ \E call_ \in NamedForallCalls : ReturnNamed(call_)
  /\ table' = NoTable
  /\ UNCHANGED <<frame, mem>>

\* r = exists(X) as a whole expression
Call_exists_named ==
  /\ stack = <<>>
  /\ \E call_ \in NamedExistsCalls : ReturnNamed(call_)
  /\ table' = NoTable
  /\ UNCHANGED <<frame, mem>>

\* r[i] = v by the caller holding the returned array r: an array is modified
\* in place, so when r is the object bound to t or f that name's value changes
Assign_item ==
  /\ stack = <<>>
  /\ last.fn # "none"
  /\ \E i \in 1..2, v \in {0, 1} :
       /\ last' = [last EXCEPT !.result.data[i] = v]
       /\ mem' = IF ref \in {"t", "f"}
                 THEN [mem EXCEPT ![ref].data[i] = v]
                 ELSE mem
  /\ UNCHANGED <<stack, table, frame, ref>>

NextReturned ==
  \/ Call_forall_named
  \/ Call_exists_named
  \/ Call_n
  \/ Pop
  \/ Assign_item

SpecReturned == Init /\ [][NextReturned]_vars

\* ---------------------------------------------------------------- properties
Basis == {t, f}

\* the values that have been produced: operands awaiting use, the latest
\* call's result, and the results of the latest truth table
Produced ==
  {stack[i] : i \in 1..Len(stack)}
    \cup {last.result}
    \cup {table.rows[i].result : i \in 1..Len(table.rows)}

\* C1: every value produced by composing n, a, o, c, c2, xor, exists and
\* forall from t, f and 0/1 predicate operands is one of the two basis
\* vectors (1,0) and (0,1)
C1_OnlyBasisVectors == Produced \subseteq Basis

\* a connective applied to the results of two quantifier calls
C1_Witness ==
  /\ last.fn = "a"
  /\ last.args = <<f, t>>
  /\ last.result = f
  /\ stack = <<f>>

\* the latest call was name(x, y) on basis vectors
Called(name, x, y) == last.fn = name /\ last.args = <<x, y>>

\* every row of the latest truth table of name follows expected
TableFollows(name, expected(_, _)) ==
  table.fn = name =>
    /\ Len(table.rows) = 4
    /\ \A i \in 1..4 :
         table.rows[i].result =
           expected(table.rows[i].first, table.rows[i].second)

\* every direct call of name on basis vectors follows expected
CallFollows(name, expected(_, _)) ==
  \A x \in Basis, y \in Basis :
    Called(name, x, y) => last.result = expected(x, y)

Disjunction(x, y) == IF x = f /\ y = f THEN f ELSE t
Conjunction(x, y) == IF x = t /\ y = t THEN t ELSE f
Conditional(x, y) == IF x = t /\ y = f THEN f ELSE t
ExclusiveOr(x, y) == IF x = y THEN f ELSE t

\* C2: o(x, y) follows the disjunction truth table on the four basis pairs:
\* (T,T)->T, (T,F)->T, (F,T)->T, (F,F)->F
C2_DisjunctionTable ==
  CallFollows("o", Disjunction) /\ TableFollows("o", Disjunction)

C2_Witness == Called("o", t, f) /\ last.result = t

\* C3: a(x, y) follows the conjunction truth table on the four basis pairs:
\* (T,T)->T, (T,F)->F, (F,T)->F, (F,F)->F
C3_ConjunctionTable ==
  CallFollows("a", Conjunction) /\ TableFollows("a", Conjunction)

C3_Witness == Called("a", t, t) /\ last.result = t

\* C4: c(x, y), contracting cond with y first and then with x, follows the
\* conditional truth table with x the antecedent and y the consequent:
\* (T,T)->T, (T,F)->F, (F,T)->T, (F,F)->T
C4_ConditionalTable ==
  CallFollows("c", Conditional) /\ TableFollows("c", Conditional)

C4_Witness == Called("c", f, t) /\ last.result = t

\* C5: n(v) is the other basis vector, and n applied to that result gives
\* v back
C5_NegationSwaps ==
  \A v \in Basis :
    (last.fn = "n" /\ last.args = <<v>>) =>
      /\ last.result \in Basis \ {v}
      /\ n(last.result) = v

C5_Witness == last.fn = "n" /\ last.args = <<f>> /\ last.result = t

\* C6: the primitive conditional c and the derived c2(x, y) = o(n(x), y)
\* agree on every basis pair
C6_ConditionalEquivalence ==
  /\ \A x \in Basis, y \in Basis :
       /\ Called("c", x, y) => last.result = c2(x, y) /\ last.result = o(n(x), y)
       /\ Called("c2", x, y) => last.result = c(x, y) /\ last.result = o(n(x), y)
  /\ table.fn = "c" => table.rows = truth_table("c2")
  /\ table.fn = "c2" => table.rows = truth_table("c")

C6_Witness ==
  /\ table.fn = "c2"
  /\ Len(table.rows) = 4
  /\ table.rows[3] = [first |-> f, second |-> t, result |-> t]

\* C7: xor(x, y) is TRUE exactly when one argument is TRUE and the other
\* FALSE: xor(T,T)=F, xor(T,F)=T, xor(F,T)=T, xor(F,F)=F
C7_ExclusiveOrTable ==
  CallFollows("xor", ExclusiveOr) /\ TableFollows("xor", ExclusiveOr)

C7_Witness == Called("xor", f, t) /\ last.result = t

\* the entities P holds of, read off the diagonal of a k x k matrix
diagonal(P) ==
  LET k == P.shape[1] IN [i \in 1..k |-> P.data[(i - 1) * k + i]]

IsPredicateMatrix(P) ==
  ndim(P) = 2 /\ P.shape[1] \in Sizes /\ P \in PredicateMatrices(P.shape[1])

IsExtensionVector(v) ==
  ndim(v) = 1 /\ v.shape[1] \in Sizes /\ v \in ExtensionVectors(v.shape[1])

Min(p, q) == IF p <= q THEN p ELSE q

\* C8: on N x N diagonal 0/1 matrices forall(X, Y) is TRUE iff every entity
\* in the extension X . ones is in the extension Y . ones, i.e. iff the
\* extension of X is the coordinate-wise min of the two, and FALSE otherwise;
\* forall(iscat, brown) = TRUE, forall(brown, iscat) = FALSE and
\* forall(isdog, brown) = FALSE
C8_ForallSubset ==
  last.fn = "forall" =>
    LET X == last.args[1]
        Y == last.args[2]
        k == X.shape[1]
        x == diagonal(X)
        y == diagonal(Y)
        subset == \A i \in 1..k : x[i] = 1 => y[i] = 1
    IN (IsPredicateMatrix(X) /\ IsPredicateMatrix(Y)) =>
         /\ matmul(X, ones(k)).data = x
         /\ matmul(Y, ones(k)).data = y
         /\ subset <=> (\A i \in 1..k : x[i] = Min(x[i], y[i]))
         /\ last.result = IF subset THEN t ELSE f
         /\ last.args = <<iscat, brown>> => last.result = t
         /\ last.args = <<brown, iscat>> => last.result = f
         /\ last.args = <<isdog, brown>> => last.result = f

C8_Witness == Called("forall", brown, iscat) /\ last.result = f

\* the extension of brown as a vector
brown_extension == Arr(<<3>>, <<0, 1, 1>>)

\* the number of members of a 0/1 extension vector
members(v) == Cardinality({i \in 1..Len(v.data) : v.data[i] = 1})

C10_ExistsAnyNonzero ==
  last.fn = "exists" =>
    LET X == last.args[1]
        nonzero == {i \in 1..Len(X.data) : X.data[i] # 0}
    IN (IsExtensionVector(X) \/ IsPredicateMatrix(X)) =>
         /\ last.result = IF nonzero # {} THEN t ELSE f
         /\ X = Arr(<<3>>, <<0, 0, 0>>) => last.result = f
         /\ X = cats => last.result = t

C10_Witness ==
  /\ last.fn = "exists"
  /\ last.args = <<Arr(<<3>>, <<0, 0, 1>>)>>
  /\ last.result = t

\* C11: for a 2 x N predicate matrix P with basis columns and a one-hot
\* entity e, matmul(P, e) is a basis truth vector, TRUE exactly when the
\* column of P selected by e is (1,0); mp gives TRUE for john, FALSE for tom
C11_PredicateApplication ==
  last.fn = "matmul" =>
    LET P == last.args[1]
        e == last.args[2]
        k == e.shape[1]
    IN (P \in PropositionalPredicates(k) /\ e \in EntityVectors(k)) =>
         /\ last.result \in Basis
         /\ \A i \in 1..k :
              e.data[i] = 1 =>
                (last.result = t <=> (P.data[i] = 1 /\ P.data[k + i] = 0))
         /\ last.args = <<mp, john>> => last.result = t
         /\ last.args = <<mp, tom>> => last.result = f

C11_Witness ==
  last.fn = "matmul" /\ last.args = <<mp, tom>> /\ last.result = f

\* C12: for an N x N diagonal 0/1 predicate matrix P and a 0/1 extension
\* vector v, matmul(P, v) is the 0/1 vector with a 1 exactly where
\* P[i][i] = 1 and v[i] = 1; brown . dogs = (0,1,0), and P applied to the
\* all-ones vector is P's own extension
C12_ExtensionRestriction ==
  last.fn = "matmul" =>
    LET P == last.args[1]
        v == last.args[2]
        k == v.shape[1]
    IN (IsPredicateMatrix(P) /\ IsExtensionVector(v) /\ P.shape[1] = k) =>
         /\ last.result.shape = <<k>>
         /\ \A i \in 1..k :
              last.result.data[i] =
                IF diagonal(P)[i] = 1 /\ v.data[i] = 1 THEN 1 ELSE 0
         /\ last.args = <<brown, dogs>> => last.result = Arr(<<3>>, <<0, 1, 0>>)
         /\ v = ones(k) => last.result.data = diagonal(P)

C12_Witness ==
  /\ last.fn = "matmul"
  /\ last.args = <<brown, dogs>>
  /\ last.result = Arr(<<3>>, <<0, 1, 0>>)

\* C13: for an N x N diagonal 0/1 predicate filter P and the all-ones
\* universe vector U, applying P to its own extension P . U gives P . U again
C13_FilterIdempotent ==
  last.fn = "matmul" =>
    LET P == last.args[1]
        U == last.args[2]
    IN (IsPredicateMatrix(P) /\ U = ones(P.shape[1])) =>
         matmul(P, last.result) = last.result

C13_Witness ==
  /\ last.fn = "matmul"
  /\ last.args = <<isdog, entities>>
  /\ last.result = dogs

\* C19: for N x N diagonal 0/1 predicate matrices P and Q,
\* exists(matmul(P, Q)) is TRUE iff some entity is in both extensions, and is
\* the same with P and Q swapped; exists(iscat . brown) = TRUE,
\* exists(iscat . black) = FALSE, exists(isdog . black) = TRUE
C19_ExistsOfProduct ==
  last.fn = "exists_matmul" =>
    LET P == last.args[1]
        Q == last.args[2]
        k == P.shape[1]
    IN (IsPredicateMatrix(P) /\ IsPredicateMatrix(Q) /\ Q.shape[1] = k) =>
         /\ last.result =
              IF \E i \in 1..k : diagonal(P)[i] = 1 /\ diagonal(Q)[i] = 1
              THEN t ELSE f
         /\ last.result = exists(matmul(Q, P))
         /\ last.args = <<iscat, brown>> => last.result = t
         /\ last.args = <<iscat, black>> => last.result = f
         /\ last.args = <<isdog, black>> => last.result = t

C19_Witness ==
  last.fn = "exists_matmul" /\ last.args = <<iscat, black>> /\ last.result = f

\* the all-zero k x k matrix
ZeroMatrix(k) == Arr(<<k, k>>, [r \in 1..(k * k) |-> 0])

\* C18: forall is vacuously true on the empty extension: forall(Z, Y) = TRUE
\* for the all-zero N x N matrix Z and every N x N diagonal 0/1 matrix Y, the
\* all-zero one included; and forall(X, Z) = TRUE only when the extension of
\* X is empty
C18_ForallVacuous ==
  last.fn = "forall" =>
    LET X == last.args[1]
        Y == last.args[2]
        k == X.shape[1]
    IN (IsPredicateMatrix(X) /\ IsPredicateMatrix(Y) /\ Y.shape[1] = k) =>
         /\ X = ZeroMatrix(k) => last.result = t
         /\ (Y = ZeroMatrix(k) /\ last.result = t) =>
              \A i \in 1..k : diagonal(X)[i] = 0

C18_Witness ==
  Called("forall", ZeroMatrix(3), ZeroMatrix(3)) /\ last.result = t

\* C15: whenever the two arguments of forall do not have the same
\* dimensions (N x N with M x M, N x N with 1 x N, a length-N vector with an
\* N x N matrix) the call fails with an error and returns no truth value
C15_ForallShapeMismatchFails ==
  (last.fn = "forall" /\ last.args[1].shape # last.args[2].shape) =>
    last.result = ValueError

\* C16: whenever a 2-vector that is not (1,0) or (0,1) is passed to n, a, o
\* or c, the call fails with an error surfaced to the caller and returns no
\* result
C16_NonBasisArgumentFails ==
  (/\ last.fn \in {"n", "a", "o", "c"}
   /\ \E i \in 1..Len(last.args) :
        last.args[i] \in TwoVectors \ {t, f})
    => last.result = ValueError

\* the order (TRUE,TRUE), (TRUE,FALSE), (FALSE,TRUE), (FALSE,FALSE)
FixedOrder == <<<<t, t>>, <<t, f>>, <<f, t>>, <<f, f>>>>

\* C14: truth_table(func) calls func once per input pair, in the order
\* (TRUE,TRUE), (TRUE,FALSE), (FALSE,TRUE), (FALSE,FALSE) with the pair as
\* (first, second), and returns exactly four entries in that order, each
\* holding its pair and the result of func on it
C14_TruthTableOrder ==
  /\ frame.i <= 4
  /\ Len(frame.calls) = frame.i
  /\ Len(frame.table) = frame.i
  /\ \A j \in 1..frame.i :
       /\ frame.calls[j] = <<frame.func, FixedOrder[j][1], FixedOrder[j][2]>>
       /\ frame.table[j].first = FixedOrder[j][1]
       /\ frame.table[j].second = FixedOrder[j][2]
       /\ frame.table[j].result =
            call(frame.func, FixedOrder[j][1], FixedOrder[j][2])
  /\ frame.pc = "done" =>
       /\ frame.i = 4
       /\ Len(table.rows) = 4
       /\ table = [fn |-> frame.func, rows |-> frame.table]
       /\ table.rows = truth_table(frame.func)

C14_Witness ==
  /\ frame.pc = "done"
  /\ frame.func = "c"
  /\ Len(frame.calls) = 4
  /\ table.rows[2] = [first |-> t, second |-> f, result |-> f]
  /\ table.rows[3] = [first |-> f, second |-> t, result |-> t]

\* C17: n, a, o, c, forall, exists and truth_table leave the module-level
\* constants unchanged and return a fresh value sharing no storage with them,
\* so that no in-place modification of a returned result by the caller ever
\* changes the value of t or f seen by later calls
C17_ConstantsKeepTheirValue == mem.t = t /\ mem.f = f

====
